---- MODULE Spec2Model ----
(***************************************************************************)
(* Model of the cylon serving core (src/cylon/src): the InferenceRun       *)
(* handler, the prompt queue, the background queue processor (drainer)     *)
(* and the result cache, as concurrent tasks over three tokio mutexes      *)
(* (processing, queue, model).                                             *)
(***************************************************************************)
EXTENDS Integers, Sequences, FiniteSets, TLC

(***************************************************************************)
(* Bounds of the model.                                                    *)
(***************************************************************************)
\* number of InferenceRun calls that arrive in one behaviour
MaxJobs == 4
\* config.queue_buffer_size (cylon-config default 100), scaled down
QueueBufferSize == 2
\* the clock runs from 0 to MaxTime seconds
MaxTime == 2
\* config.result_cache_ttl (cylon-config default 3600) ranges over 1..MaxTtl
MaxTtl == 2
\* token ids range over 0..MaxToken
MaxToken == 2
\* max_tokens (config.sample_len, cylon-config default 10000) ranges over
\* 0..MaxSampleLen
MaxSampleLen == 3
\* the prompt has 1..MaxPromptLen tokens
MaxPromptLen == 2
\* number of generations one model serves in one behaviour
MaxRuns == 2
\* a request has 0..MaxMessages messages
MaxMessages == 2
\* the input of get_last_json has 0..MaxInputLen pieces
MaxInputLen == 4

Jobs == 1..MaxJobs

(***************************************************************************)
(* Tasks.  Handler t serves the t-th InferenceRun call and owns job id t   *)
(* (the fresh Uuid::new_v4 of api.rs:29); drainer t is the task spawned by *)
(* handler t at api.rs:75.                                                 *)
(***************************************************************************)
Handler(t) == <<"handler", t>>
Drainer(t) == <<"drainer", t>>
NoTask == <<"none", 0>>
Handlers == {Handler(t) : t \in Jobs}
Drainers == {Drainer(t) : t \in Jobs}
Tasks == Handlers \cup Drainers

VARIABLES
    queue_disabled,    \* Cylon.queue_disabled (fixed at construction)
    processing,        \* value behind Cylon.processing: Mutex<bool>
    processing_guard,  \* task holding the processing mutex, or NoTask
    queue,             \* jobs buffered in the mpsc channel of PromptQueue
    queue_len,         \* PromptQueue.queue_len
    queue_guard,       \* task holding the queue mutex, or NoTask
    model_guard,       \* task holding the model mutex, or NoTask
    results,           \* ResultCache: job id -> InferenceRunReply
    pc,                \* position of every task in its code
    job,               \* job a drainer has dequeued and is working on
    outcome,           \* result of a task's last process_inference_request
    reply,             \* what InferenceRun returned to the caller of job t
    enqueued,          \* history: job ids in the order their enqueue succeeded
    started,           \* history: queued jobs in the order their generation began
    resolved           \* history: queued jobs in the order their terminal entry was written

\* the serving core
serverVars == <<queue_disabled, processing, processing_guard, queue, queue_len,
                queue_guard, model_guard, results, pc, job, outcome, reply,
                enqueued, started, resolved>>

\* ResultCache on its own, with its clock and its concurrent callers
VARIABLES
    cache,             \* ResultCache.cache: key -> (value, timestamp)
    ttl,               \* ResultCache.ttl, in seconds
    now,               \* Utc::now(), in seconds
    pending,           \* per caller: the expired entry its get is about to remove
    lookup,            \* history: the last lookup made and what it returned
    inserted           \* history: per key, the value and time of its last insert

cacheVars == <<cache, ttl, now, pending, lookup, inserted>>

\* one call of InferenceEngine::generate
VARIABLES
    gen_pc,            \* "idle", "loop" (top of the for loop), "done" (Ok), "failed" (Err)
    max_tokens,        \* argument max_tokens
    use_kv_cache,      \* model.use_kv_cache()
    eos_handler,       \* model.eos_handler()
    tokens,            \* local tokens: the prompt followed by the sampled tokens
    generated_tokens,  \* local generated_tokens
    index,             \* loop variable of for index in 0..max_tokens
    forwards           \* history: context window and input of every model.forward call

genVars == <<gen_pc, max_tokens, use_kv_cache, eos_handler, tokens,
             generated_tokens, index, forwards>>

\* one iteration of the generation loop, with its logits
VARIABLES
    config,            \* argument config: InferenceConfig
    logits_processor,  \* local logits_processor
    logits,            \* local logits as returned by model.forward
    penalised,         \* local logits as handed to logits_processor.sample
    next_token,        \* local next_token
    sample_pc          \* "idle", "new", "forward", "penalty", "sample", "pushed"

sampleVars == <<config, logits_processor, logits, penalised, next_token, sample_pc>>

\* the Qwen backend: one QwenModel serving generations one after another
VARIABLES
    kv_cache,          \* positions held by the internal KV cache of self.model
    kv_at_forward,     \* per forward pass of the generation: kv_cache as the
                       \* pass found it
    clears,            \* clear_kv_cache calls since the last forward pass
    runs,              \* generations started
    qwen_pc            \* "idle", "loop", "pass"

qwenVars == <<kv_cache, kv_at_forward, clears, runs, qwen_pc>>

\* the way of a request from InferenceRun to the backend
VARIABLES
    system_prompt,     \* Cylon.system_prompt, cloned into every QueueProcessor
    received,          \* history: per job id, the messages of its request
    prompt_queue,      \* QueuedRequests buffered in the channel of PromptQueue
    backend            \* history: the prompts handed to model.inference

promptVars == <<system_prompt, received, prompt_queue, backend>>

\* one call of get_last_json
VARIABLES
    input,             \* argument input, as a sequence of pieces of text
    current_pos,       \* local current_pos, counted in pieces
    last_valid_json,   \* local last_valid_json
    json_pc            \* "idle", "loop", "returned"

jsonVars == <<input, current_pos, last_valid_json, json_pc>>

\* what the serving core, the cache and the generation loop leave alone
nonServerVars == <<cacheVars, genVars, sampleVars, qwenVars, promptVars, jsonVars>>
nonCacheVars == <<serverVars, genVars, sampleVars, qwenVars, promptVars, jsonVars>>
nonGenVars == <<serverVars, cacheVars, sampleVars, qwenVars, promptVars, jsonVars>>
nonPromptVars == <<serverVars, cacheVars, genVars, sampleVars, qwenVars, jsonVars>>
nonJsonVars == <<serverVars, cacheVars, genVars, sampleVars, qwenVars, promptVars>>

vars == <<serverVars, cacheVars, genVars, sampleVars, qwenVars, promptVars, jsonVars>>

(***************************************************************************)
(* Values.                                                                 *)
(***************************************************************************)
NoReply == [kind |-> "none"]
AssistantMessage == [role |-> "assistant"]
NoMessage == [role |-> "none"]
\* InferenceRunReply { response, status, uuid }
InferenceRunReply(response, status, uuid) ==
    [kind |-> "reply", response |-> response, status |-> status, uuid |-> uuid]
\* tonic Status::internal(message)
StatusInternal(message) == [kind |-> "error", code |-> "Internal", message |-> message]

\* tokio::sync::Mutex::lock().await completes only when nobody holds the mutex
LockFreeBroken(guard) == TRUE
LockFree(guard) == guard = NoTask

\* ResultCache::insert: DashMap insert, overwriting any prior entry of key
Insert(map, key, value) ==
    [k \in DOMAIN map \cup {key} |-> IF k = key THEN value ELSE map[k]]

ServerInit ==
    /\ queue_disabled \in BOOLEAN
    /\ processing = FALSE
    /\ processing_guard = NoTask
    /\ queue = <<>>
    /\ queue_len = 0
    /\ queue_guard = NoTask
    /\ model_guard = NoTask
    /\ results = <<>>
    /\ pc = [x \in Tasks |-> IF x \in Handlers THEN "idle" ELSE "unspawned"]
    /\ job = [t \in Jobs |-> 0]
    /\ outcome = [x \in Tasks |-> "none"]
    /\ reply = [t \in Jobs |-> NoReply]
    /\ enqueued = <<>>
    /\ started = <<>>
    /\ resolved = <<>>

\* the cache variables while the serving core is under study
CacheIdle ==
    /\ cache = <<>>
    /\ ttl = 0
    /\ now = 0
    /\ pending = <<>>
    /\ lookup = <<>>
    /\ inserted = <<>>

\* the generation variables while something else is under study
GenIdle ==
    /\ gen_pc = "idle"
    /\ max_tokens = 0
    /\ use_kv_cache = FALSE
    /\ eos_handler = [kind |-> "None"]
    /\ tokens = <<>>
    /\ generated_tokens = <<>>
    /\ index = 0
    /\ forwards = <<>>

\* the variables of the single iteration while something else is under study
SampleIdle ==
    /\ config = <<>>
    /\ logits_processor = <<>>
    /\ logits = <<>>
    /\ penalised = <<>>
    /\ next_token = 0
    /\ sample_pc = "idle"

\* the Qwen variables while something else is under study
QwenIdle ==
    /\ kv_cache = 0
    /\ kv_at_forward = <<>>
    /\ clears = 0
    /\ runs = 0
    /\ qwen_pc = "idle"

\* the request variables while something else is under study
PromptIdle ==
    /\ system_prompt = <<>>
    /\ received = <<>>
    /\ prompt_queue = <<>>
    /\ backend = <<>>

\* the variables of get_last_json while something else is under study
JsonIdle ==
    /\ input = <<>>
    /\ current_pos = 0
    /\ last_valid_json = [some |-> FALSE]
    /\ json_pc = "idle"

Init ==
    /\ ServerInit /\ CacheIdle /\ GenIdle /\ SampleIdle /\ QwenIdle
    /\ PromptIdle /\ JsonIdle

(***************************************************************************)
(* PromptQueue (src/cylon/src/prompt_queue.rs).                            *)
(***************************************************************************)
\* mpsc::channel(buffer_size): send completes only while a permit is free
HasCapacityUnbounded(q) == TRUE
HasCapacity(q) == Len(q) < QueueBufferSize

\* usize::saturating_sub(1)
SaturatingDec(n) == IF n > 0 THEN n - 1 ELSE 0

\* PromptQueue::dequeue: try_recv takes the oldest buffered job, if any
DequeueNewest(q, len) ==
    IF q = <<>>
    THEN [item |-> 0, queue |-> q, queue_len |-> len]
    ELSE [item |-> q[Len(q)], queue |-> SubSeq(q, 1, Len(q) - 1),
          queue_len |-> SaturatingDec(len)]
Dequeue(q, len) ==
    IF q = <<>>
    THEN [item |-> 0, queue |-> q, queue_len |-> len]
    ELSE [item |-> Head(q), queue |-> Tail(q), queue_len |-> SaturatingDec(len)]

(***************************************************************************)
(* InferenceRun (src/cylon/src/api.rs).  Calls are numbered in the order   *)
(* in which they get past the processing mutex.                            *)
(***************************************************************************)
Arrived(t) == IF t = 0 THEN TRUE ELSE pc[Handler(t)] # "idle"

\* queue_disabled branch: take the processing mutex and keep it for the call
AdmitDisabledWithoutGuard(t) ==
    /\ queue_disabled
    /\ pc[Handler(t)] = "idle"
    /\ Arrived(t - 1)
    /\ LockFree(processing_guard)
    /\ processing_guard' = NoTask
    /\ pc' = [pc EXCEPT ![Handler(t)] = "infer"]
    /\ UNCHANGED nonServerVars
    /\ UNCHANGED <<queue_disabled, processing, queue, queue_len, queue_guard,
                   model_guard, results, job, outcome, reply, enqueued,
                   started, resolved>>
AdmitDisabled(t) ==
    /\ queue_disabled
    /\ pc[Handler(t)] = "idle"
    /\ Arrived(t - 1)
    /\ LockFree(processing_guard)
    /\ processing_guard' = Handler(t)
    /\ pc' = [pc EXCEPT ![Handler(t)] = "infer"]
    /\ UNCHANGED nonServerVars
    /\ UNCHANGED <<queue_disabled, processing, queue, queue_len, queue_guard,
                   model_guard, results, job, outcome, reply, enqueued,
                   started, resolved>>

\* processing is false: set it, drop the lock, go on to run the request
AdmitImmediateKeepingLock(t) ==
    /\ ~queue_disabled
    /\ pc[Handler(t)] = "idle"
    /\ Arrived(t - 1)
    /\ LockFree(processing_guard)
    /\ ~processing
    /\ processing' = TRUE
    /\ processing_guard' = Handler(t)
    /\ pc' = [pc EXCEPT ![Handler(t)] = "infer"]
    /\ UNCHANGED nonServerVars
    /\ UNCHANGED <<queue_disabled, queue, queue_len, queue_guard, model_guard,
                   results, job, outcome, reply, enqueued, started, resolved>>
AdmitImmediateSpawningEarly(t) ==
    /\ ~queue_disabled
    /\ pc[Handler(t)] = "idle"
    /\ Arrived(t - 1)
    /\ LockFree(processing_guard)
    /\ ~processing
    /\ processing' = TRUE
    /\ processing_guard' = NoTask
    /\ pc' = [pc EXCEPT ![Handler(t)] = "infer", ![Drainer(t)] = "loop"]
    /\ UNCHANGED nonServerVars
    /\ UNCHANGED <<queue_disabled, queue, queue_len, queue_guard, model_guard,
                   results, job, outcome, reply, enqueued, started, resolved>>
AdmitImmediateStoringQueued(t) ==
    /\ ~queue_disabled
    /\ pc[Handler(t)] = "idle"
    /\ Arrived(t - 1)
    /\ LockFree(processing_guard)
    /\ ~processing
    /\ processing' = TRUE
    /\ processing_guard' = NoTask
    /\ results' = Insert(results, t, InferenceRunReply(NoMessage, "QUEUED", t))
    /\ pc' = [pc EXCEPT ![Handler(t)] = "infer"]
    /\ UNCHANGED nonServerVars
    /\ UNCHANGED <<queue_disabled, queue, queue_len, queue_guard, model_guard,
                   job, outcome, reply, enqueued, started, resolved>>
AdmitImmediateWithoutFlag(t) ==
    /\ ~queue_disabled
    /\ pc[Handler(t)] = "idle"
    /\ Arrived(t - 1)
    /\ LockFree(processing_guard)
    /\ ~processing
    /\ processing' = processing
    /\ processing_guard' = NoTask
    /\ pc' = [pc EXCEPT ![Handler(t)] = "infer"]
    /\ UNCHANGED nonServerVars
    /\ UNCHANGED <<queue_disabled, queue, queue_len, queue_guard, model_guard,
                   results, job, outcome, reply, enqueued, started, resolved>>
AdmitImmediate(t) ==
    /\ ~queue_disabled
    /\ pc[Handler(t)] = "idle"
    /\ Arrived(t - 1)
    /\ LockFree(processing_guard)
    /\ ~processing
    /\ processing' = TRUE
    /\ processing_guard' = NoTask
    /\ pc' = [pc EXCEPT ![Handler(t)] = "infer"]
    /\ UNCHANGED nonServerVars
    /\ UNCHANGED <<queue_disabled, queue, queue_len, queue_guard, model_guard,
                   results, job, outcome, reply, enqueued, started, resolved>>

\* processing is true: drop the lock, go on to enqueue
AdmitQueued(t) ==
    /\ ~queue_disabled
    /\ pc[Handler(t)] = "idle"
    /\ Arrived(t - 1)
    /\ LockFree(processing_guard)
    /\ processing
    /\ processing_guard' = NoTask
    /\ pc' = [pc EXCEPT ![Handler(t)] = "enqueue"]
    /\ UNCHANGED nonServerVars
    /\ UNCHANGED <<queue_disabled, processing, queue, queue_len, queue_guard,
                   model_guard, results, job, outcome, reply, enqueued,
                   started, resolved>>

(***************************************************************************)
(* process_inference_request_shared (src/cylon/src/lib.rs), run by         *)
(* handlers and drainers alike.                                            *)
(***************************************************************************)
\* model.lock().await inside the blocking task
AcquireModel(x) ==
    /\ pc[x] = "infer"
    /\ LockFree(model_guard)
    /\ model_guard' = x
    /\ pc' = [pc EXCEPT ![x] = "generating"]
    /\ started' = IF x \in Drainers THEN Append(started, job[x[2]]) ELSE started
    /\ UNCHANGED nonServerVars
    /\ UNCHANGED <<queue_disabled, processing, processing_guard, queue,
                   queue_len, queue_guard, results, job, outcome, reply,
                   enqueued, resolved>>

\* model_guard.inference(..) returns Ok or Err; the guard is dropped
FinishGeneration(x) ==
    /\ pc[x] = "generating"
    /\ model_guard = x
    /\ \E r \in {"ok", "err"} : outcome' = [outcome EXCEPT ![x] = r]
    /\ model_guard' = NoTask
    /\ pc' = [pc EXCEPT ![x] = "returned"]
    /\ UNCHANGED nonServerVars
    /\ UNCHANGED <<queue_disabled, processing, processing_guard, queue,
                   queue_len, queue_guard, results, job, reply, enqueued,
                   started, resolved>>

(***************************************************************************)
(* InferenceRun, after process_inference_request.                          *)
(***************************************************************************)
\* queue_disabled branch: `?` or the OK reply; _processing_guard is dropped
DisabledReturnKeepingLockOnError(t) ==
    /\ queue_disabled
    /\ pc[Handler(t)] = "returned"
    /\ reply' = [reply EXCEPT ![t] =
            IF outcome[Handler(t)] = "ok"
            THEN InferenceRunReply(AssistantMessage, "OK", t)
            ELSE StatusInternal("Inference failed")]
    /\ processing_guard' = IF outcome[Handler(t)] = "ok" THEN NoTask
                           ELSE processing_guard
    /\ pc' = [pc EXCEPT ![Handler(t)] = "done"]
    /\ UNCHANGED nonServerVars
    /\ UNCHANGED <<queue_disabled, processing, queue, queue_len, queue_guard,
                   model_guard, results, job, outcome, enqueued, started,
                   resolved>>
DisabledReturn(t) ==
    /\ queue_disabled
    /\ pc[Handler(t)] = "returned"
    /\ reply' = [reply EXCEPT ![t] =
            IF outcome[Handler(t)] = "ok"
            THEN InferenceRunReply(AssistantMessage, "OK", t)
            ELSE StatusInternal("Inference failed")]
    /\ processing_guard' = NoTask
    /\ pc' = [pc EXCEPT ![Handler(t)] = "done"]
    /\ UNCHANGED nonServerVars
    /\ UNCHANGED <<queue_disabled, processing, queue, queue_len, queue_guard,
                   model_guard, results, job, outcome, enqueued, started,
                   resolved>>

\* immediate branch: `?` returns the error before the spawn; on success the
\* drainer task is spawned and the OK reply returned
ImmediateReturnStoringReply(t) ==
    /\ ~queue_disabled
    /\ pc[Handler(t)] = "returned"
    /\ IF outcome[Handler(t)] = "ok"
       THEN /\ reply' = [reply EXCEPT ![t] =
                    InferenceRunReply(AssistantMessage, "OK", t)]
            /\ results' = Insert(results, t,
                    InferenceRunReply(AssistantMessage, "OK", t))
            /\ pc' = [pc EXCEPT ![Handler(t)] = "done", ![Drainer(t)] = "loop"]
       ELSE /\ reply' = [reply EXCEPT ![t] = StatusInternal("Inference failed")]
            /\ results' = results
            /\ pc' = [pc EXCEPT ![Handler(t)] = "done"]
    /\ UNCHANGED nonServerVars
    /\ UNCHANGED <<queue_disabled, processing, processing_guard, queue,
                   queue_len, queue_guard, model_guard, job, outcome,
                   enqueued, started, resolved>>
ImmediateReturn(t) ==
    /\ ~queue_disabled
    /\ pc[Handler(t)] = "returned"
    /\ IF outcome[Handler(t)] = "ok"
       THEN /\ reply' = [reply EXCEPT ![t] =
                    InferenceRunReply(AssistantMessage, "OK", t)]
            /\ pc' = [pc EXCEPT ![Handler(t)] = "done", ![Drainer(t)] = "loop"]
       ELSE /\ reply' = [reply EXCEPT ![t] = StatusInternal("Inference failed")]
            /\ pc' = [pc EXCEPT ![Handler(t)] = "done"]
    /\ UNCHANGED nonServerVars
    /\ UNCHANGED <<queue_disabled, processing, processing_guard, queue,
                   queue_len, queue_guard, model_guard, results, job, outcome,
                   enqueued, started, resolved>>

\* enqueue branch: self.queue.lock().await
LockQueueStoringEarly(t) ==
    /\ pc[Handler(t)] = "enqueue"
    /\ LockFree(queue_guard)
    /\ queue_guard' = Handler(t)
    /\ results' = Insert(results, t, InferenceRunReply(NoMessage, "QUEUED", t))
    /\ pc' = [pc EXCEPT ![Handler(t)] = "send"]
    /\ UNCHANGED nonServerVars
    /\ UNCHANGED <<queue_disabled, processing, processing_guard, queue,
                   queue_len, model_guard, job, outcome, reply,
                   enqueued, started, resolved>>
LockQueue(t) ==
    /\ pc[Handler(t)] = "enqueue"
    /\ LockFree(queue_guard)
    /\ queue_guard' = Handler(t)
    /\ pc' = [pc EXCEPT ![Handler(t)] = "send"]
    /\ UNCHANGED nonServerVars
    /\ UNCHANGED <<queue_disabled, processing, processing_guard, queue,
                   queue_len, model_guard, results, job, outcome, reply,
                   enqueued, started, resolved>>

\* queue.enqueue(..).await with the queue lock held: sender.send waits for
\* capacity (it fails only on a closed channel, and PromptQueue owns the
\* receiver); then queue_len += 1 and drop(queue)
EnqueueWithoutCount(t) ==
    /\ pc[Handler(t)] = "send"
    /\ queue_guard = Handler(t)
    /\ HasCapacity(queue)
    /\ queue' = Append(queue, t)
    /\ queue_len' = queue_len
    /\ queue_guard' = NoTask
    /\ enqueued' = Append(enqueued, t)
    /\ pc' = [pc EXCEPT ![Handler(t)] = "insert"]
    /\ UNCHANGED nonServerVars
    /\ UNCHANGED <<queue_disabled, processing, processing_guard, model_guard,
                   results, job, outcome, reply, started, resolved>>
Enqueue(t) ==
    /\ pc[Handler(t)] = "send"
    /\ queue_guard = Handler(t)
    /\ HasCapacity(queue)
    /\ queue' = Append(queue, t)
    /\ queue_len' = queue_len + 1
    /\ queue_guard' = NoTask
    /\ enqueued' = Append(enqueued, t)
    /\ pc' = [pc EXCEPT ![Handler(t)] = "insert"]
    /\ UNCHANGED nonServerVars
    /\ UNCHANGED <<queue_disabled, processing, processing_guard, model_guard,
                   results, job, outcome, reply, started, resolved>>

\* results.insert(job_id, QUEUED) and the QUEUED reply
StoreQueued(t) ==
    /\ pc[Handler(t)] = "insert"
    /\ results' = Insert(results, t, InferenceRunReply(NoMessage, "QUEUED", t))
    /\ reply' = [reply EXCEPT ![t] = InferenceRunReply(NoMessage, "QUEUED", t)]
    /\ pc' = [pc EXCEPT ![Handler(t)] = "done"]
    /\ UNCHANGED nonServerVars
    /\ UNCHANGED <<queue_disabled, processing, processing_guard, queue,
                   queue_len, queue_guard, model_guard, job, outcome, enqueued,
                   started, resolved>>

(***************************************************************************)
(* QueueProcessor::process_queue (src/cylon/src/queue_processor.rs).       *)
(***************************************************************************)
\* top of the loop: lock the queue and dequeue; with a job, drop the lock
\* and go on to run it; without, keep the lock and go on to the reset
DrainerDequeueWaiting(d) ==
    /\ pc[Drainer(d)] = "loop"
    /\ LockFree(queue_guard)
    /\ queue # <<>>
    /\ LET r == Dequeue(queue, queue_len) IN
         /\ queue' = r.queue
         /\ queue_len' = r.queue_len
         /\ job' = [job EXCEPT ![d] = r.item]
         /\ IF r.item # 0
            THEN /\ queue_guard' = NoTask
                 /\ pc' = [pc EXCEPT ![Drainer(d)] = "infer"]
            ELSE /\ queue_guard' = Drainer(d)
                 /\ pc' = [pc EXCEPT ![Drainer(d)] = "reset"]
    /\ UNCHANGED nonServerVars
    /\ UNCHANGED <<queue_disabled, processing, processing_guard, model_guard,
                   results, outcome, reply, enqueued, started, resolved>>
DrainerDequeue(d) ==
    /\ pc[Drainer(d)] = "loop"
    /\ LockFree(queue_guard)
    /\ LET r == Dequeue(queue, queue_len) IN
         /\ queue' = r.queue
         /\ queue_len' = r.queue_len
         /\ job' = [job EXCEPT ![d] = r.item]
         /\ IF r.item # 0
            THEN /\ queue_guard' = NoTask
                 /\ pc' = [pc EXCEPT ![Drainer(d)] = "infer"]
            ELSE /\ queue_guard' = Drainer(d)
                 /\ pc' = [pc EXCEPT ![Drainer(d)] = "reset"]
    /\ UNCHANGED nonServerVars
    /\ UNCHANGED <<queue_disabled, processing, processing_guard, model_guard,
                   results, outcome, reply, enqueued, started, resolved>>

\* the job's COMPLETED or ERROR entry is written; next iteration
DrainerStoreStoppingOnError(d) ==
    /\ pc[Drainer(d)] = "returned"
    /\ results' = Insert(results, job[d],
            IF outcome[Drainer(d)] = "ok"
            THEN InferenceRunReply(AssistantMessage, "COMPLETED", job[d])
            ELSE InferenceRunReply(NoMessage, "ERROR", job[d]))
    /\ resolved' = Append(resolved, job[d])
    /\ job' = [job EXCEPT ![d] = 0]
    /\ outcome' = [outcome EXCEPT ![Drainer(d)] = "none"]
    /\ pc' = [pc EXCEPT ![Drainer(d)] =
                 IF outcome[Drainer(d)] = "ok" THEN "loop" ELSE "exited"]
    /\ UNCHANGED nonServerVars
    /\ UNCHANGED <<queue_disabled, processing, processing_guard, queue,
                   queue_len, queue_guard, model_guard, reply, enqueued,
                   started>>
DrainerStoreKeyedByDrainer(d) ==
    /\ pc[Drainer(d)] = "returned"
    /\ results' = Insert(results, d,
            IF outcome[Drainer(d)] = "ok"
            THEN InferenceRunReply(AssistantMessage, "COMPLETED", job[d])
            ELSE InferenceRunReply(NoMessage, "ERROR", job[d]))
    /\ resolved' = Append(resolved, job[d])
    /\ job' = [job EXCEPT ![d] = 0]
    /\ outcome' = [outcome EXCEPT ![Drainer(d)] = "none"]
    /\ pc' = [pc EXCEPT ![Drainer(d)] = "loop"]
    /\ UNCHANGED nonServerVars
    /\ UNCHANGED <<queue_disabled, processing, processing_guard, queue,
                   queue_len, queue_guard, model_guard, reply, enqueued,
                   started>>
DrainerStore(d) ==
    /\ pc[Drainer(d)] = "returned"
    /\ results' = Insert(results, job[d],
            IF outcome[Drainer(d)] = "ok"
            THEN InferenceRunReply(AssistantMessage, "COMPLETED", job[d])
            ELSE InferenceRunReply(NoMessage, "ERROR", job[d]))
    /\ resolved' = Append(resolved, job[d])
    /\ job' = [job EXCEPT ![d] = 0]
    /\ outcome' = [outcome EXCEPT ![Drainer(d)] = "none"]
    /\ pc' = [pc EXCEPT ![Drainer(d)] = "loop"]
    /\ UNCHANGED nonServerVars
    /\ UNCHANGED <<queue_disabled, processing, processing_guard, queue,
                   queue_len, queue_guard, model_guard, reply, enqueued,
                   started>>

\* queue empty: lock processing (queue lock still held), clear it, break
DrainerResetKeepingFlag(d) ==
    /\ pc[Drainer(d)] = "reset"
    /\ LockFree(processing_guard)
    /\ processing' = processing
    /\ processing_guard' = NoTask
    /\ queue_guard' = NoTask
    /\ pc' = [pc EXCEPT ![Drainer(d)] = "exited"]
    /\ UNCHANGED nonServerVars
    /\ UNCHANGED <<queue_disabled, queue, queue_len, model_guard, results, job,
                   outcome, reply, enqueued, started, resolved>>
DrainerResetWithoutBreak(d) ==
    /\ pc[Drainer(d)] = "reset"
    /\ LockFree(processing_guard)
    /\ processing' = FALSE
    /\ processing_guard' = NoTask
    /\ queue_guard' = NoTask
    /\ pc' = [pc EXCEPT ![Drainer(d)] = "loop"]
    /\ UNCHANGED nonServerVars
    /\ UNCHANGED <<queue_disabled, queue, queue_len, model_guard, results, job,
                   outcome, reply, enqueued, started, resolved>>
DrainerReset(d) ==
    /\ pc[Drainer(d)] = "reset"
    /\ LockFree(processing_guard)
    /\ processing' = FALSE
    /\ processing_guard' = NoTask
    /\ queue_guard' = NoTask
    /\ pc' = [pc EXCEPT ![Drainer(d)] = "exited"]
    /\ UNCHANGED nonServerVars
    /\ UNCHANGED <<queue_disabled, queue, queue_len, model_guard, results, job,
                   outcome, reply, enqueued, started, resolved>>

(***************************************************************************)
(* Specifications.                                                         *)
(***************************************************************************)
\* the steps a task takes once its call has been admitted
TaskStep(x) ==
    \/ AcquireModel(x)
    \/ FinishGeneration(x)
    \/ /\ x \in Handlers
       /\ \/ DisabledReturn(x[2])
          \/ ImmediateReturn(x[2])
          \/ LockQueue(x[2])
          \/ Enqueue(x[2])
          \/ StoreQueued(x[2])
    \/ /\ x \in Drainers
       /\ \/ DrainerDequeue(x[2])
          \/ DrainerStore(x[2])
          \/ DrainerReset(x[2])

Next ==
    \/ \E t \in Jobs : AdmitDisabled(t)
    \/ \E t \in Jobs : AdmitImmediate(t)
    \/ \E t \in Jobs : AdmitQueued(t)
    \/ \E x \in Tasks : AcquireModel(x)
    \/ \E x \in Tasks : FinishGeneration(x)
    \/ \E t \in Jobs : DisabledReturn(t)
    \/ \E t \in Jobs : ImmediateReturn(t)
    \/ \E t \in Jobs : LockQueue(t)
    \/ \E t \in Jobs : Enqueue(t)
    \/ \E t \in Jobs : StoreQueued(t)
    \/ \E d \in Jobs : DrainerDequeue(d)
    \/ \E d \in Jobs : DrainerStore(d)
    \/ \E d \in Jobs : DrainerReset(d)

Spec == Init /\ [][Next]_vars

\* tokio runs every admitted task that can take a step; generations end;
\* no InferenceRun call is obliged to arrive
FairSpec == Spec /\ \A x \in Tasks : WF_vars(TaskStep(x))


(***************************************************************************)
(* ResultCache (src/cylon/src/result_cache.rs) and the two lookup RPCs     *)
(* (src/cylon/src/api.rs), under concurrent callers.  The values stored    *)
(* are the entries the serving core writes.                                *)
(***************************************************************************)
\* two job ids: the one an operation is about, and another one
Keys == {1, 2}
\* one polling client; inserts, the clock and the cleanup task run
\* concurrently with the two halves of its get
Callers == {1}
NoKey == 0
\* a caller that is not between the two halves of a get
NoPending == [key |-> NoKey, op |-> "none"]
None == [some |-> FALSE]
Some(v) == [some |-> TRUE, value |-> v]
\* tonic Status::not_found
NotFound == [kind |-> "error", code |-> "NotFound"]
\* the entries inference_run and process_queue insert under job id k
EntriesOf(k) ==
    {InferenceRunReply(NoMessage, "QUEUED", k),
     InferenceRunReply(AssistantMessage, "COMPLETED", k),
     InferenceRunReply(NoMessage, "ERROR", k)}

\* no lookup made yet.  serial flips at every lookup; overwritten tells that
\* the key looked up has been inserted again since; prev is the output of the
\* InferenceStatus call made just before on the same key, with no insert of
\* the key in between
NoLookup ==
    [op |-> "none", key |-> NoKey, result |-> None, serial |-> 0,
     overwritten |-> FALSE, prev |-> None]

\* Utc::now() - *timestamp < self.ttl
LiveIgnoringTtl(timestamp, t) == TRUE
Live(timestamp, t) == t - timestamp < ttl

\* ResultCache::get, the read: Some(value.clone()) for a live entry
GetValue(k) ==
    IF k \in DOMAIN cache /\ Live(cache[k].timestamp, now)
    THEN Some(cache[k].value)
    ELSE None

\* DashMap::remove(key)
RemoveAll(map, key) == <<>>
Remove(map, key) == [k \in DOMAIN map \ {key} |-> map[k]]

\* ResultCache::len
CacheLen == Cardinality(DOMAIN cache)

CacheInit ==
    /\ ServerInit
    /\ queue_disabled = FALSE
    /\ cache = <<>>
    /\ ttl \in 1..MaxTtl
    /\ now = 0
    /\ pending = [c \in Callers |-> NoPending]
    /\ lookup = NoLookup
    /\ inserted = <<>>
    /\ GenIdle
    /\ SampleIdle
    /\ QwenIdle
    /\ PromptIdle
    /\ JsonIdle

\* the wall clock advances
Tick ==
    /\ now < MaxTime
    /\ now' = now + 1
    /\ UNCHANGED <<cache, ttl, pending, lookup, inserted>>
    /\ UNCHANGED nonCacheVars

\* ResultCache::insert(key, value): (value, Utc::now()) replaces the entry
CacheInsert(k, v) ==
    /\ cache' = Insert(cache, k, [value |-> v, timestamp |-> now])
    /\ inserted' = Insert(inserted, k, [value |-> v, at |-> now])
    /\ lookup' = IF lookup.key = k THEN [lookup EXCEPT !.overwritten = TRUE]
                  ELSE lookup
    /\ UNCHANGED <<ttl, now, pending>>
    /\ UNCHANGED nonCacheVars

\* the read half of ResultCache::get by caller c on behalf of operation op:
\* a live entry is returned; an expired one is released (drop(entry)) and
\* its removal is still to come
Read(c, k, op, output) ==
    /\ pending[c] = NoPending
    /\ lookup' = [op |-> op, key |-> k, result |-> output,
                  serial |-> 1 - lookup.serial, overwritten |-> FALSE,
                  prev |-> IF /\ op = "status" /\ lookup.op = "status"
                              /\ lookup.key = k /\ ~lookup.overwritten
                           THEN Some(lookup.result)
                           ELSE None]
    /\ pending' = IF k \in DOMAIN cache /\ GetValue(k) = None
                  THEN [pending EXCEPT ![c] = [key |-> k, op |-> op]]
                  ELSE pending
    /\ UNCHANGED <<cache, ttl, now, inserted>>
    /\ UNCHANGED nonCacheVars

\* ResultCache::get(key)
CacheGet(c, k) == Read(c, k, "get", GetValue(k))

\* inference_status: the stored status, or NotFound
InferenceStatus(c, k) ==
    Read(c, k, "status",
         IF GetValue(k) = None THEN NotFound
         ELSE [kind |-> "reply", status |-> GetValue(k).value.status])

\* inference_result: the stored response (possibly none), or NotFound
InferenceResult(c, k) ==
    Read(c, k, "result",
         IF GetValue(k) = None THEN NotFound
         ELSE [kind |-> "reply", response |-> GetValue(k).value.response])

\* the write half of ResultCache::get: self.cache.remove(key)
Evict(c) ==
    /\ pending[c] # NoPending
    /\ cache' = Remove(cache, pending[c].key)
    /\ pending' = [pending EXCEPT ![c] = NoPending]
    /\ UNCHANGED <<ttl, now, lookup, inserted>>
    /\ UNCHANGED nonCacheVars

\* ResultCache::cleanup_expired, run by the background task at each tick of
\* its interval: retain the live entries
CleanupExpired ==
    /\ \E k \in DOMAIN cache : ~Live(cache[k].timestamp, now)
    /\ cache' = [k \in {x \in DOMAIN cache : Live(cache[x].timestamp, now)} |-> cache[k]]
    /\ UNCHANGED <<ttl, now, pending, lookup, inserted>>
    /\ UNCHANGED nonCacheVars

CacheNext ==
    \/ Tick
    \/ \E k \in Keys : \E v \in EntriesOf(k) : CacheInsert(k, v)
    \/ \E c \in Callers, k \in Keys : CacheGet(c, k)
    \/ \E c \in Callers, k \in Keys : InferenceStatus(c, k)
    \/ \E c \in Callers, k \in Keys : InferenceResult(c, k)
    \/ \E c \in Callers : Evict(c)
    \/ CleanupExpired

CacheSpec == CacheInit /\ [][CacheNext]_vars

(***************************************************************************)
(* InferenceEngine::generate                                               *)
(* (src/cylon-inference-engine/src/inference_engine.rs) and the EOS        *)
(* handler (src/cylon-model/src/eos.rs).  The logits of a forward pass are *)
(* the backend's business: the token sampled from them is any token.       *)
(***************************************************************************)
Vocab == 0..MaxToken

\* EosTokenHandler::{Single(id), Multiple(ids), None}
Single(id) == [kind |-> "Single", id |-> id]
Multiple(ids) == [kind |-> "Multiple", ids |-> ids]
EosNone == [kind |-> "None"]
EosHandlers == {Single(0), Multiple({0, 1}), Multiple({}), EosNone}

\* EosTokenHandler::is_eos_token
IsEosToken(handler, token_id) ==
    CASE handler.kind = "Single" -> token_id = handler.id
      [] handler.kind = "Multiple" -> token_id \in handler.ids
      [] handler.kind = "None" -> FALSE

Prompts == {[i \in 1..n |-> MaxToken] : n \in 1..MaxPromptLen}

\* &tokens[tokens.len().saturating_sub(context_size)..]
LastTokens(toks, context_size) ==
    SubSeq(toks, (IF context_size > Len(toks) THEN 0 ELSE Len(toks) - context_size) + 1,
           Len(toks))

\* (context_size, context_index) and ctxt of the iteration about to run
ContextWindowAlwaysFull ==
    [context_size |-> Len(tokens), context_index |-> 0,
     ctxt |-> LastTokens(tokens, Len(tokens))]
ContextWindow ==
    IF use_kv_cache /\ index > 0
    THEN [context_size |-> 1, context_index |-> Len(tokens) - 1,
          ctxt |-> LastTokens(tokens, 1)]
    ELSE [context_size |-> Len(tokens), context_index |-> 0,
          ctxt |-> LastTokens(tokens, Len(tokens))]

GenInit ==
    /\ ServerInit
    /\ queue_disabled = FALSE
    /\ CacheIdle
    /\ SampleIdle
    /\ QwenIdle
    /\ PromptIdle
    /\ JsonIdle
    /\ gen_pc = "loop"
    /\ max_tokens \in 0..MaxSampleLen
    /\ use_kv_cache \in BOOLEAN
    /\ eos_handler \in EosHandlers
    /\ tokens \in Prompts
    /\ generated_tokens = <<>>
    /\ index = 0
    /\ forwards = <<>>

\* one iteration of the loop: forward, sample a token, push it, break on
\* an EOS token
IterateWithoutBreak(token) ==
    /\ gen_pc = "loop"
    /\ index < max_tokens
    /\ forwards' = Append(forwards, ContextWindow)
    /\ tokens' = Append(tokens, token)
    /\ generated_tokens' = Append(generated_tokens, token)
    /\ gen_pc' = "loop"
    /\ index' = index + 1
    /\ UNCHANGED <<max_tokens, use_kv_cache, eos_handler>>
    /\ UNCHANGED nonGenVars
IterateDroppingEos(token) ==
    /\ gen_pc = "loop"
    /\ index < max_tokens
    /\ forwards' = Append(forwards, ContextWindow)
    /\ tokens' = Append(tokens, token)
    /\ IF IsEosToken(eos_handler, token)
       THEN /\ generated_tokens' = generated_tokens
            /\ gen_pc' = "done" /\ index' = index
       ELSE /\ generated_tokens' = Append(generated_tokens, token)
            /\ gen_pc' = "loop" /\ index' = index + 1
    /\ UNCHANGED <<max_tokens, use_kv_cache, eos_handler>>
    /\ UNCHANGED nonGenVars
Iterate(token) ==
    /\ gen_pc = "loop"
    /\ index < max_tokens
    /\ forwards' = Append(forwards, ContextWindow)
    /\ tokens' = Append(tokens, token)
    /\ generated_tokens' = Append(generated_tokens, token)
    /\ IF IsEosToken(eos_handler, token)
       THEN gen_pc' = "done" /\ index' = index
       ELSE gen_pc' = "loop" /\ index' = index + 1
    /\ UNCHANGED <<max_tokens, use_kv_cache, eos_handler>>
    /\ UNCHANGED nonGenVars

\* an iteration whose forward, penalty or sample returns Err: ? leaves generate
IterateFails ==
    /\ gen_pc = "loop"
    /\ index < max_tokens
    /\ forwards' = Append(forwards, ContextWindow)
    /\ gen_pc' = "failed"
    /\ UNCHANGED <<max_tokens, use_kv_cache, eos_handler, tokens,
                   generated_tokens, index>>
    /\ UNCHANGED nonGenVars

\* the range 0..max_tokens is exhausted: Ok(generated_tokens)
Exhausted ==
    /\ gen_pc = "loop"
    /\ index = max_tokens
    /\ gen_pc' = "done"
    /\ UNCHANGED <<max_tokens, use_kv_cache, eos_handler, tokens,
                   generated_tokens, index, forwards>>
    /\ UNCHANGED nonGenVars

GenNext ==
    \/ \E token \in Vocab : Iterate(token)
    \/ IterateFails
    \/ Exhausted

GenSpec == GenInit /\ [][GenNext]_vars

(***************************************************************************)
(* One iteration of InferenceEngine::generate with its logits: the logits  *)
(* processor of InferenceConfig::create_logits_processor, forward, the     *)
(* repeat penalty and the sampling, on a token sequence the loop has       *)
(* reached.  Logits are small integers on which the penalty is exact.      *)
(***************************************************************************)
\* Sampling::{ArgMax, All, TopK, TopP, TopKThenTopP}
ArgMax == [kind |-> "ArgMax"]
All(temperature) == [kind |-> "All", temperature |-> temperature]
TopK(k, temperature) == [kind |-> "TopK", k |-> k, temperature |-> temperature]
TopP(p, temperature) == [kind |-> "TopP", p |-> p, temperature |-> temperature]
TopKThenTopP(k, p, temperature) ==
    [kind |-> "TopKThenTopP", k |-> k, p |-> p, temperature |-> temperature]

\* self.seed.unwrap_or(42)
DefaultSeed == 42

\* InferenceConfig::create_logits_processor: the sampling chosen
SamplingTopKFirst(c) ==
    IF c.temperature <= 0 THEN ArgMax
    ELSE IF c.top_k # None THEN TopK(c.top_k.value, c.temperature)
    ELSE IF c.top_p # None THEN TopP(c.top_p.value, c.temperature)
    ELSE All(c.temperature)
Sampling(c) ==
    IF c.temperature <= 0 THEN ArgMax
    ELSE IF c.top_k = None /\ c.top_p = None THEN All(c.temperature)
    ELSE IF c.top_k # None /\ c.top_p = None THEN TopK(c.top_k.value, c.temperature)
    ELSE IF c.top_k = None /\ c.top_p # None THEN TopP(c.top_p.value, c.temperature)
    ELSE TopKThenTopP(c.top_k.value, c.top_p.value, c.temperature)

\* LogitsProcessor::from_sampling(self.seed.unwrap_or(42), sampling)
CreateLogitsProcessor(c) ==
    [seed |-> IF c.seed = None THEN DefaultSeed ELSE c.seed.value,
     sampling |-> Sampling(c)]

\* the values a logit takes, and the logits vectors forward returns
LogitValues == {-2, 0, 2}
Logits == [Vocab -> LogitValues]

\* &tokens[start_at..] with start_at = tokens.len().saturating_sub(repeat_last_n)
PenaltyContextWhole(toks, repeat_last_n) == toks
PenaltyContext(toks, repeat_last_n) == LastTokens(toks, repeat_last_n)

\* candle_transformers::utils::apply_repeat_penalty(&logits, penalty, context)
ApplyRepeatPenalty(l, penalty, context) ==
    [i \in DOMAIN l |->
        IF \E j \in 1..Len(context) : context[j] = i
        THEN IF l[i] >= 0 THEN l[i] \div penalty ELSE l[i] * penalty
        ELSE l[i]]

\* the logits handed to the sampler
Penalised(l, toks, c) ==
    IF c.repeat_penalty # 1
    THEN ApplyRepeatPenalty(l, c.repeat_penalty, PenaltyContext(toks, c.repeat_last_n))
    ELSE l

\* the indices of the largest logit; which of them the sampler of the
\* candle crate returns on a tie is not decided in this repository
ArgMaxSet(l) == {i \in DOMAIN l : \A j \in DOMAIN l : l[j] <= l[i]}

\* logits_processor.sample(&logits): an index of the largest logit, or a
\* draw of the seeded random generator among the tokens
SampleSet(processor, l) ==
    IF processor.sampling.kind = "ArgMax" THEN ArgMaxSet(l) ELSE DOMAIN l

\* the configurations tried
Configs ==
    [temperature : {-1, 0, 1},
     top_k : {None, Some(1)},
     top_p : {None, Some(1)},
     seed : {None, Some(7)},
     repeat_penalty : {1, 2},
     repeat_last_n : {0, 1, 2}]

\* token sequences of at most n tokens over the first two token ids
TokenSeqs(n) == UNION {[1..m -> {0, 1}] : m \in 0..n}

\* the loop is at the top of an iteration, the KV cache disabled, with a
\* prompt of one or two tokens and at most one token generated so far
SampleInit ==
    /\ ServerInit
    /\ queue_disabled = FALSE
    /\ CacheIdle
    /\ QwenIdle
    /\ PromptIdle
    /\ JsonIdle
    /\ gen_pc = "loop"
    /\ max_tokens = MaxSampleLen
    /\ use_kv_cache = FALSE
    /\ eos_handler = EosNone
    /\ generated_tokens \in TokenSeqs(1)
    /\ \E prompt \in TokenSeqs(2) \ {<<>>} : tokens = prompt \o generated_tokens
    /\ index = Len(generated_tokens)
    /\ forwards = [i \in 1..Len(generated_tokens) |->
                      [context_size |-> Len(tokens) - Len(generated_tokens) + i - 1,
                       context_index |-> 0,
                       ctxt |-> SubSeq(tokens, 1, Len(tokens) - Len(generated_tokens) + i - 1)]]
    /\ config \in Configs
    /\ logits = <<>>
    /\ penalised = <<>>
    /\ next_token = 0
    /\ IF generated_tokens = <<>>
       THEN sample_pc = "new" /\ logits_processor = <<>>
       ELSE sample_pc = "forward" /\ logits_processor = CreateLogitsProcessor(config)

\* let mut logits_processor = config.create_logits_processor()
Begin ==
    /\ sample_pc = "new"
    /\ logits_processor' = CreateLogitsProcessor(config)
    /\ sample_pc' = "forward"
    /\ UNCHANGED <<config, logits, penalised, next_token>>
    /\ UNCHANGED <<serverVars, cacheVars, genVars, qwenVars, promptVars, jsonVars>>

\* model.forward(&input, context_index, &mut cache) returns the logits l
Forward(l) ==
    /\ sample_pc = "forward"
    /\ forwards' = Append(forwards, ContextWindow)
    /\ logits' = l
    /\ sample_pc' = "penalty"
    /\ UNCHANGED <<config, logits_processor, penalised, next_token>>
    /\ UNCHANGED <<gen_pc, max_tokens, use_kv_cache, eos_handler, tokens,
                   generated_tokens, index>>
    /\ UNCHANGED <<serverVars, cacheVars, qwenVars, promptVars, jsonVars>>

\* the repeat penalty, when configured
Penalise ==
    /\ sample_pc = "penalty"
    /\ penalised' = Penalised(logits, tokens, config)
    /\ sample_pc' = "sample"
    /\ UNCHANGED <<config, logits_processor, logits, next_token>>
    /\ UNCHANGED <<serverVars, cacheVars, genVars, qwenVars, promptVars, jsonVars>>

\* logits_processor.sample(&logits) gives token; it is pushed
Sample(token) ==
    /\ sample_pc = "sample"
    /\ token \in SampleSet(logits_processor, penalised)
    /\ next_token' = token
    /\ tokens' = Append(tokens, token)
    /\ generated_tokens' = Append(generated_tokens, token)
    /\ sample_pc' = "pushed"
    /\ UNCHANGED <<config, logits_processor, logits, penalised>>
    /\ UNCHANGED <<gen_pc, max_tokens, use_kv_cache, eos_handler, index, forwards>>
    /\ UNCHANGED <<serverVars, cacheVars, qwenVars, promptVars, jsonVars>>

SampleNext ==
    \/ Begin
    \/ \E l \in Logits : Forward(l)
    \/ Penalise
    \/ \E token \in Vocab : Sample(token)

SampleSpec == SampleInit /\ [][SampleNext]_vars

(***************************************************************************)
(* QwenModel (src/cylon-models/src/qwen.rs): TextGenerator::generate and   *)
(* ModelInference::forward over the internal KV cache of the Qwen2 model.  *)
(* The serving core holds the model mutex for the whole of an inference    *)
(* (lib.rs:102-103), so generations on one model run one after another.    *)
(***************************************************************************)
\* QwenModel::use_kv_cache
QwenUseKvCache == FALSE

\* QwenModel::clear_kv_cache: the cache after the call
ClearKvCache(kv) == 0

\* QwenModel::forward up to the clear: the cache after it
ForwardClearKeeping(kv, enabled) == kv
ForwardClear(kv, enabled) == IF ~enabled THEN ClearKvCache(kv) ELSE kv

\* the forward pass of the Qwen2 model: the cache grows by the input
ModelForward(kv, tensor) == kv + Len(tensor)

QwenInit ==
    /\ ServerInit
    /\ queue_disabled = FALSE
    /\ CacheIdle
    /\ GenIdle
    /\ SampleIdle
    /\ QwenIdle
    /\ PromptIdle
    /\ JsonIdle

\* TextGenerator::generate up to the loop of InferenceEngine::generate
QwenGenerate(prompt, n) ==
    /\ qwen_pc = "idle"
    /\ runs < MaxRuns
    /\ runs' = runs + 1
    /\ kv_cache' = ClearKvCache(kv_cache)
    /\ clears' = clears + 1
    /\ kv_at_forward' = <<>>
    /\ tokens' = prompt
    /\ max_tokens' = n
    /\ use_kv_cache' = QwenUseKvCache
    /\ eos_handler' \in {h \in EosHandlers : h.kind = "Single"}
    /\ generated_tokens' = <<>>
    /\ index' = 0
    /\ forwards' = <<>>
    /\ gen_pc' = "loop"
    /\ qwen_pc' = "loop"
    /\ UNCHANGED <<serverVars, cacheVars, sampleVars, promptVars, jsonVars>>

\* QwenModel::forward, first half: if !self.use_kv_cache() { clear }
QwenForwardClear ==
    /\ qwen_pc = "loop"
    /\ index < max_tokens
    /\ kv_cache' = ForwardClear(kv_cache, use_kv_cache)
    /\ clears' = IF ~use_kv_cache THEN clears + 1 ELSE clears
    /\ qwen_pc' = "pass"
    /\ UNCHANGED <<kv_at_forward, runs>>
    /\ UNCHANGED <<serverVars, cacheVars, genVars, sampleVars, promptVars, jsonVars>>

\* QwenModel::forward, second half, and the rest of the iteration
QwenForwardPass(token) ==
    /\ qwen_pc = "pass"
    /\ kv_at_forward' = Append(kv_at_forward, kv_cache)
    /\ forwards' = Append(forwards, ContextWindow)
    /\ kv_cache' = ModelForward(kv_cache, ContextWindow.ctxt)
    /\ clears' = 0
    /\ tokens' = Append(tokens, token)
    /\ generated_tokens' = Append(generated_tokens, token)
    /\ IF IsEosToken(eos_handler, token)
       THEN gen_pc' = "done" /\ qwen_pc' = "idle" /\ index' = index
       ELSE gen_pc' = "loop" /\ qwen_pc' = "loop" /\ index' = index + 1
    /\ UNCHANGED <<max_tokens, use_kv_cache, eos_handler, runs>>
    /\ UNCHANGED <<serverVars, cacheVars, sampleVars, promptVars, jsonVars>>

\* the forward pass of the Qwen2 model returns Err, having stored the keys
\* and values of the input or not: ? leaves forward and generate
QwenForwardFails ==
    /\ qwen_pc = "pass"
    /\ kv_at_forward' = Append(kv_at_forward, kv_cache)
    /\ forwards' = Append(forwards, ContextWindow)
    /\ kv_cache' \in {kv_cache, ModelForward(kv_cache, ContextWindow.ctxt)}
    /\ clears' = 0
    /\ gen_pc' = "failed"
    /\ qwen_pc' = "idle"
    /\ UNCHANGED <<max_tokens, use_kv_cache, eos_handler, tokens,
                   generated_tokens, index, runs>>
    /\ UNCHANGED <<serverVars, cacheVars, sampleVars, promptVars, jsonVars>>

\* the range 0..max_tokens is exhausted: Ok(generated_tokens)
QwenExhausted ==
    /\ qwen_pc = "loop"
    /\ index = max_tokens
    /\ gen_pc' = "done"
    /\ qwen_pc' = "idle"
    /\ UNCHANGED <<max_tokens, use_kv_cache, eos_handler, tokens,
                   generated_tokens, index, forwards>>
    /\ UNCHANGED <<kv_cache, kv_at_forward, clears, runs>>
    /\ UNCHANGED <<serverVars, cacheVars, sampleVars, promptVars, jsonVars>>

QwenNext ==
    \/ \E prompt \in Prompts, n \in 0..MaxSampleLen : QwenGenerate(prompt, n)
    \/ QwenForwardClear
    \/ \E token \in Vocab : QwenForwardPass(token)
    \/ QwenForwardFails
    \/ QwenExhausted

QwenSpec == QwenInit /\ [][QwenNext]_vars

(***************************************************************************)
(* The way of a request to the backend: Cylon::new serialises the system   *)
(* prompt, InferenceRun (src/cylon/src/api.rs) processes the request at    *)
(* once or enqueues it, QueueProcessor::process_queue dequeues it, and     *)
(* process_inference_request_shared (src/cylon/src/lib.rs) builds the      *)
(* prompt on either path.  Job ids are the arrival numbers.                *)
(***************************************************************************)
\* struct Prompt
Prompt(role, content) == [role |-> role, content |-> content]

\* serde_json::to_string(&Prompt): the object with its fields in order
ToJson(p) == <<<<"role", p.role>>, <<"content", p.content>>>>

\* config.system_prompt
SystemPrompts == {"s", "t"}

\* Message of an InferenceRunRequest
Message(role, content) == [role |-> role, content |-> content]
Messages == {Message("user", "a"), Message("assistant", "b")}

\* InferenceRunRequest
Requests ==
    {[messages |-> m] :
        m \in UNION {[1..n -> Messages] : n \in 0..MaxMessages}}

\* struct QueuedRequest
QueuedRequest(job_id, request) == [job_id |-> job_id, request |-> request]

\* process_inference_request_shared: prompt_vec
PromptVecSystemLast(sp, req) ==
    [k \in 1..Len(req.messages) |->
        ToJson(Prompt(req.messages[k].role, req.messages[k].content))] \o <<sp>>
PromptVec(sp, req) ==
    <<sp>> \o [k \in 1..Len(req.messages) |->
                ToJson(Prompt(req.messages[k].role, req.messages[k].content))]

\* Cylon::new
PromptInit ==
    /\ ServerInit
    /\ queue_disabled = FALSE
    /\ CacheIdle
    /\ GenIdle
    /\ SampleIdle
    /\ QwenIdle
    /\ JsonIdle
    /\ \E c \in SystemPrompts : system_prompt = ToJson(Prompt("system", c))
    /\ received = <<>>
    /\ prompt_queue = <<>>
    /\ backend = <<>>

\* InferenceRun on a path that calls self.process_inference_request(req)
RunImmediate(req) ==
    /\ Len(received) < MaxRuns
    /\ received' = Append(received, req)
    /\ backend' = Append(backend, [job_id |-> Len(received) + 1,
                                   path |-> "immediate",
                                   prompt |-> PromptVec(system_prompt, req)])
    /\ UNCHANGED <<system_prompt, prompt_queue>>
    /\ UNCHANGED nonPromptVars

\* InferenceRun on the path that calls queue.enqueue(job_id.clone(), req)
RunQueued(req) ==
    /\ Len(received) < MaxRuns
    /\ HasCapacity(prompt_queue)
    /\ received' = Append(received, req)
    /\ prompt_queue' = Append(prompt_queue, QueuedRequest(Len(received) + 1, req))
    /\ UNCHANGED <<system_prompt, backend>>
    /\ UNCHANGED nonPromptVars

\* process_queue: a dequeue that returns Some, then
\* self.process_inference_request(request) with the processor's clone of
\* the system prompt
DrainOne ==
    /\ prompt_queue # <<>>
    /\ LET r == Dequeue(prompt_queue, Len(prompt_queue)) IN
         /\ prompt_queue' = r.queue
         /\ backend' = Append(backend,
                [job_id |-> r.item.job_id,
                 path |-> "drained",
                 prompt |-> PromptVec(system_prompt, r.item.request)])
    /\ UNCHANGED <<system_prompt, received>>
    /\ UNCHANGED nonPromptVars

PromptNext ==
    \/ \E req \in Requests : RunImmediate(req)
    \/ \E req \in Requests : RunQueued(req)
    \/ DrainOne

PromptSpec == PromptInit /\ [][PromptNext]_vars

(***************************************************************************)
(* get_last_json (src/src/utils.rs).  The input is a sequence of pieces of *)
(* text: the marker, the fence, a blank, two JSON values, the start of a   *)
(* broken JSON object and a word; offsets count pieces.  No two pieces     *)
(* put side by side contain a marker, a fence or a JSON value the pieces   *)
(* themselves do not.                                                      *)
(***************************************************************************)
\* action_marker
ActionMarker == "Action:"
\* the fence of three backticks, written ~~~ here
Fence == "~~~"
Blank == " "
JsonValues == {"{}", "[1]"}
BrokenJson == "{oops"
Word == "text"
Pieces == {ActionMarker, Fence, Blank, BrokenJson, Word} \cup JsonValues
Inputs == UNION {[1..n -> Pieces] : n \in 0..MaxInputLen}

\* &s[from..]
From(s, from) == SubSeq(s, from + 1, Len(s))

\* str::find: the offset of the first occurrence
Find(s, piece) ==
    IF \E i \in 1..Len(s) : s[i] = piece
    THEN Some((CHOOSE i \in 1..Len(s) :
                  s[i] = piece /\ \A j \in 1..(i - 1) : s[j] # piece) - 1)
    ELSE None

\* chars().take_while(|c| c.is_whitespace()).collect::<String>().len()
LeadingWhitespace(s) ==
    IF \E i \in 1..Len(s) : s[i] # Blank
    THEN (CHOOSE i \in 1..Len(s) :
             s[i] # Blank /\ \A j \in 1..(i - 1) : s[j] = Blank) - 1
    ELSE Len(s)

\* serde_json::from_str::<Value>: one JSON value, blanks around it allowed
FromStr(s) ==
    LET core == SelectSeq(s, LAMBDA c : c # Blank)
    IN IF Len(core) = 1 /\ core[1] \in JsonValues THEN Some(core[1]) ELSE None

\* starts_with of the fence
StartsWithFence(s) == s # <<>> /\ s[1] = Fence
\* starts_with('{') || starts_with('[')
StartsWithJson(s) == s # <<>> /\ s[1] \in JsonValues \cup {BrokenJson}

\* the locals of the loop body for the marker found at offset start
Body(start) ==
    LET after == current_pos + start + 1
        json_start == after + LeadingWhitespace(From(input, after))
    IN [json_start |-> json_start,
        remaining |-> From(input, json_start),
        code_start |-> json_start + 1,
        code_end |-> Find(From(input, json_start + 1), Fence)]

\* input[current_pos..].find(action_marker)
NextMarker == Find(From(input, current_pos), ActionMarker)

JsonInit ==
    /\ ServerInit
    /\ queue_disabled = FALSE
    /\ CacheIdle
    /\ GenIdle
    /\ SampleIdle
    /\ QwenIdle
    /\ PromptIdle
    /\ input \in Inputs
    /\ current_pos = 0
    /\ last_valid_json = None
    /\ json_pc = "loop"

\* no further marker: the loop ends and last_valid_json is returned
NoMarker ==
    /\ json_pc = "loop"
    /\ ~NextMarker.some
    /\ json_pc' = "returned"
    /\ UNCHANGED <<input, current_pos, last_valid_json>>
    /\ UNCHANGED nonJsonVars

\* a fence follows the marker and is closed: parse what it encloses and
\* go on behind the closing fence
FencedBlock ==
    /\ json_pc = "loop"
    /\ NextMarker.some
    /\ LET b == Body(NextMarker.value) IN
         /\ StartsWithFence(b.remaining)
         /\ b.code_end.some
         /\ LET json_str == SubSeq(input, b.code_start + 1,
                                   b.code_start + b.code_end.value)
            IN last_valid_json' = IF FromStr(json_str).some
                                  THEN FromStr(json_str)
                                  ELSE last_valid_json
         /\ current_pos' = b.code_start + b.code_end.value + 1
    /\ UNCHANGED <<input, json_pc>>
    /\ UNCHANGED nonJsonVars

\* a fence follows the marker and is not closed: break
UnclosedFence ==
    /\ json_pc = "loop"
    /\ NextMarker.some
    /\ LET b == Body(NextMarker.value) IN
         /\ StartsWithFence(b.remaining)
         /\ ~b.code_end.some
    /\ json_pc' = "returned"
    /\ UNCHANGED <<input, current_pos, last_valid_json>>
    /\ UNCHANGED nonJsonVars

\* { or [ follows the marker: parse the rest of the input, then break
BareJson ==
    /\ json_pc = "loop"
    /\ NextMarker.some
    /\ LET b == Body(NextMarker.value) IN
         /\ ~StartsWithFence(b.remaining)
         /\ StartsWithJson(b.remaining)
         /\ last_valid_json' = IF FromStr(b.remaining).some
                               THEN FromStr(b.remaining)
                               ELSE last_valid_json
    /\ json_pc' = "returned"
    /\ UNCHANGED <<input, current_pos>>
    /\ UNCHANGED nonJsonVars

\* something else follows the marker: go on behind the marker
SkipMarker ==
    /\ json_pc = "loop"
    /\ NextMarker.some
    /\ LET b == Body(NextMarker.value) IN
         /\ ~StartsWithFence(b.remaining)
         /\ ~StartsWithJson(b.remaining)
         /\ current_pos' = b.json_start
    /\ UNCHANGED <<input, last_valid_json, json_pc>>
    /\ UNCHANGED nonJsonVars

JsonNext ==
    \/ NoMarker
    \/ FencedBlock
    \/ UnclosedFence
    \/ BareJson
    \/ SkipMarker

JsonSpec == JsonInit /\ [][JsonNext]_vars

(***************************************************************************)
(* Properties.                                                             *)
(***************************************************************************)
Generating == {x \in Tasks : pc[x] = "generating"}
DrainerLive(d) == pc[Drainer(d)] \notin {"unspawned", "exited"}
Terminal == {"COMPLETED", "ERROR"}
HasStatus(j, statuses) == j \in DOMAIN results /\ results[j].status \in statuses
IsPrefix(s, t) == Len(s) <= Len(t) /\ SubSeq(t, 1, Len(s)) = s
\* handler t has set processing and has not yet returned
ImmediateInFlight(t) ==
    ~queue_disabled /\ pc[Handler(t)] \in {"infer", "generating", "returned"}
\* handler t is between its admission to the enqueue branch and its send
EnqueueInFlight(t) == pc[Handler(t)] \in {"enqueue", "send"}

\* C1: at most one generation is in progress against the model, in every
\* reachable state, whatever the mode and the interleaving of the calls.
C1_SingleInferenceSlot == Cardinality(Generating) <= 1

\* a drainer generates while another InferenceRun call is in flight
C1_Witness ==
    \E d \in Jobs, t \in Jobs :
        pc[Drainer(d)] = "generating" /\ pc[Handler(t)] \in {"enqueue", "send", "insert"}

\* C2: whenever processing is true, the task obliged to clear it exists:
\* the handler that set it is still on its way to spawning the drainer, or
\* the drainer it spawned is live; this whatever the outcome of the
\* handler's own generation.
C2_FlagHasDrainer ==
    processing =>
        \/ \E t \in Jobs : ImmediateInFlight(t)
        \/ \E d \in Jobs : DrainerLive(d)

\* C3: when processing is false and no drainer is running, the prompt
\* queue is empty (no queued job is stranded).
C3_NoStrandedJob ==
    (~processing /\ \A d \in Jobs : ~DrainerLive(d)) => queue = <<>>

\* C4: once the cache entry of a job has status COMPLETED or ERROR, no
\* later write puts it back to QUEUED.
C4_NeverRevertsToQueued ==
    [][\A j \in Jobs :
          HasStatus(j, Terminal) => ~(j \in DOMAIN results' /\ results'[j].status = "QUEUED")]_vars

\* C5: every job accepted with a QUEUED reply eventually has a cache entry
\* with status COMPLETED or ERROR, with no further call needed.
C5_QueuedEventuallyResolved ==
    \A j \in Jobs :
        (reply[j] = InferenceRunReply(NoMessage, "QUEUED", j)) ~> HasStatus(j, Terminal)

\* C6: the prompt queue never holds more than queue_buffer_size jobs.
C6_QueueBound == Len(queue) <= QueueBufferSize

\* the queue is full and a further handler is at its send
C6_Witness ==
    Len(queue) = QueueBufferSize /\ \E t \in Jobs : pc[Handler(t)] = "send"

\* C7: a call that finds the slot busy and the queue full is answered with
\* an Internal queue-full error, and its job id is not cached.
C7_QueueFullRejected ==
    \A t \in Jobs :
        (pc[Handler(t)] = "send" /\ Len(queue) >= QueueBufferSize)
            ~> (reply[t].kind = "error" /\ t \notin DOMAIN results)

C9_HandlerHoldsNoLock ==
    \A t \in Jobs :
        pc[Handler(t)] \in {"infer", "generating"} =>
            (processing_guard # Handler(t) /\ queue_guard # Handler(t))

\* C9 (amended): during its generation call a handler never holds the queue
\* mutex; it holds the processing mutex exactly in queue-disabled mode.
C9_HandlerLocksByMode ==
    \A t \in Jobs :
        pc[Handler(t)] \in {"infer", "generating"} =>
            /\ queue_guard # Handler(t)
            /\ (processing_guard = Handler(t)) <=> queue_disabled

\* a queue-enabled handler is generating while another call is admitted
C9_Witness ==
    /\ ~queue_disabled
    /\ \E t \in Jobs, u \in Jobs :
          pc[Handler(t)] = "generating" /\ pc[Handler(u)] = "enqueue"

\* C10: the drainer starts queued jobs in the order of their successful
\* enqueues, and writes the terminal entry of one before starting the next.
C10_FifoOrder ==
    /\ IsPrefix(started, enqueued)
    /\ IsPrefix(resolved, started)
    /\ Len(started) <= Len(resolved) + 1

\* two queued jobs have been resolved
C10_Witness == Len(resolved) >= 2 /\ Len(enqueued) > Len(resolved)

Range(f) == {f[i] : i \in DOMAIN f}
QueuedReply(j) == InferenceRunReply(NoMessage, "QUEUED", j)
\* task x is inside process_inference_request_shared
InGeneration(x) == pc[x] \in {"infer", "generating"}

\* C11: no drainer is live, and so no queued job is being run, while an
\* immediate-path generation is waiting or in progress; a drainer is spawned
\* only by a handler whose immediate generation has returned.
C11_QueuedAfterImmediate ==
    /\ [](\A t \in Jobs, d \in Jobs :
            (~queue_disabled /\ InGeneration(Handler(t))) => ~DrainerLive(d))
    /\ [][\A d \in Jobs :
            (pc[Drainer(d)] = "unspawned" /\ pc'[Drainer(d)] # "unspawned")
                => (pc[Handler(d)] = "returned" /\ pc'[Handler(d)] = "done")]_vars

\* a drainer runs a job that was enqueued during the immediate generation
\* of the handler that spawned it
C11_Witness ==
    \E d \in Jobs :
        /\ pc[Drainer(d)] = "generating"
        /\ job[d] > d
        /\ pc[Handler(d)] = "done"

\* C14: the handler on the enqueue branch writes the QUEUED entry
\* {QUEUED, no response, job id} under its job id and returns the same
\* reply; an entry exists only for a job whose enqueue has succeeded.
C14_QueuedAdmission ==
    /\ [](\A j \in DOMAIN results : j \in Range(enqueued))
    /\ [](\A t \in Jobs : (reply[t].kind = "reply" /\ reply[t].status = "QUEUED")
                             => (reply[t] = QueuedReply(t) /\ t \in Range(enqueued)))
    /\ [][\A t \in Jobs :
            (pc[Handler(t)] = "insert" /\ pc'[Handler(t)] # "insert")
                => /\ t \in DOMAIN results' /\ results'[t] = QueuedReply(t)
                   /\ reply'[t] = QueuedReply(t)
                   /\ pc'[Handler(t)] = "done"]_vars

\* a call admitted while processing was true has been answered QUEUED and
\* its entry is QUEUED
C14_Witness ==
    \E t \in Jobs :
        /\ reply[t] = QueuedReply(t)
        /\ t \in DOMAIN results /\ results[t] = QueuedReply(t)
        /\ processing

\* C15: in queue-disabled mode a call whose generation succeeded is
\* answered {OK, assistant message, its job id}, and at most one call at a
\* time is between its admission and its return.
C15_DisabledMode ==
    queue_disabled =>
        /\ \A t \in Jobs :
              (pc[Handler(t)] = "done" /\ outcome[Handler(t)] = "ok")
                  => reply[t] = InferenceRunReply(AssistantMessage, "OK", t)
        /\ Cardinality({t \in Jobs :
                          pc[Handler(t)] \in {"infer", "generating", "returned"}}) <= 1

\* one call has been answered OK and the next one is generating
C15_Witness ==
    /\ queue_disabled
    /\ \E t \in Jobs, u \in Jobs :
          /\ reply[t] = InferenceRunReply(AssistantMessage, "OK", t)
          /\ pc[Handler(u)] = "generating"

\* C16: at most one drainer is live; a drainer is spawned only by the
\* handler that set processing, on the return of its immediate generation,
\* and is never spawned again once it has exited.
C16_OneDrainer ==
    /\ [](Cardinality({d \in Jobs : DrainerLive(d)}) <= 1)
    /\ [][\A d \in Jobs :
            /\ (~DrainerLive(d) /\ DrainerLive(d)')
                  => /\ pc[Drainer(d)] = "unspawned"
                     /\ ~queue_disabled /\ processing
                     /\ pc[Handler(d)] = "returned" /\ outcome[Handler(d)] = "ok"
                     /\ pc'[Handler(d)] = "done"
            /\ pc[Drainer(d)] = "exited" => pc'[Drainer(d)] = "exited"]_vars

\* a second drainer is live after the first one has exited
C16_Witness ==
    \E d \in Jobs, e \in Jobs : pc[Drainer(d)] = "exited" /\ DrainerLive(e)

\* C17: when the generation of a dequeued job has failed, the drainer
\* writes {ERROR, no response, job id} under the job id and goes back to the
\* top of its loop, exactly as after a success.
C17_DrainerErrorHandling ==
    [][\A d \in Jobs :
          (pc[Drainer(d)] = "returned" /\ outcome[Drainer(d)] = "err"
              /\ pc'[Drainer(d)] # "returned")
             => /\ job[d] \in DOMAIN results'
                /\ results'[job[d]] = InferenceRunReply(NoMessage, "ERROR", job[d])
                /\ pc'[Drainer(d)] = "loop"
                /\ processing' = processing]_vars

\* after a failed job the drainer ran the next job, emptied the queue and
\* cleared processing
C17_Witness ==
    /\ Len(resolved) >= 2
    /\ HasStatus(resolved[1], {"ERROR"})
    /\ \E d \in Jobs : pc[Drainer(d)] = "exited"
    /\ ~processing

\* C18: a failed immediate-path generation is answered with an Internal
\* error, and every call admitted after it still gets its generation
\* executed, inline or by a drainer.
C18_ServesAfterImmediateError ==
    /\ [](\A t \in Jobs :
            (~queue_disabled /\ pc[Handler(t)] = "done" /\ outcome[Handler(t)] = "err")
                => (reply[t].kind = "error" /\ reply[t].code = "Internal"))
    /\ \A t \in Jobs :
          (/\ ~queue_disabled
           /\ pc[Handler(t)] # "idle"
           /\ \E u \in Jobs : u < t /\ reply[u].kind = "error")
              ~> (outcome[Handler(t)] # "none" \/ t \in Range(started))

\* a step that is the read half of a lookup
LookupStep == lookup'.serial # lookup.serial

\* C12: a get of a key returns the value of the key's last insert while less
\* than ttl has passed since that insert, and None from then on.
C12_TtlLookup ==
    [][(LookupStep /\ lookup'.op = "get" /\ lookup'.key \in DOMAIN inserted)
          => LET k == lookup'.key
             IN  lookup'.result = IF now - inserted[k].at < ttl
                                  THEN Some(inserted[k].value)
                                  ELSE None]_vars

\* C19: InferenceStatus and InferenceResult answer NotFound when the cache
\* holds no entry younger than ttl under the uuid, and otherwise the status,
\* respectively the response (possibly none), of the entry stored there.
C19_LookupRpcs ==
    [][LookupStep
          => LET k == lookup'.key
                 live == k \in DOMAIN cache /\ now - cache[k].timestamp < ttl
             IN  /\ lookup'.op = "status"
                      => lookup'.result =
                            IF live
                            THEN [kind |-> "reply", status |-> cache[k].value.status]
                            ELSE NotFound
                 /\ lookup'.op = "result"
                      => lookup'.result =
                            IF live
                            THEN [kind |-> "reply", response |-> cache[k].value.response]
                            ELSE NotFound]_vars

\* InferenceResult has just answered a live QUEUED entry with no response,
\* and InferenceStatus would answer NotFound for the other, expired, entry
C19_Witness ==
    /\ lookup.op = "result"
    /\ lookup.result = [kind |-> "reply", response |-> NoMessage]
    /\ lookup.key \in DOMAIN cache
    /\ cache[lookup.key].value.status = "QUEUED"
    /\ \E k \in DOMAIN cache : now - cache[k].timestamp >= ttl

\* the outputs InferenceStatus gives for a resolved job
ResolvedOutputs ==
    {[kind |-> "reply", status |-> "COMPLETED"], [kind |-> "reply", status |-> "ERROR"]}

\* C20: no step of an InferenceStatus call changes what a lookup of any key
\* returns, and
\* an InferenceStatus call that follows one on the same resolved job, with
\* no insert of that job in between, returns the same output.
C20_StatusReadOnly ==
    /\ [][(\/ LookupStep /\ lookup'.op = "status"
           \/ \E c \in Callers : pending[c].op = "status" /\ pending'[c] # pending[c])
             => \A k \in Keys : GetValue(k)' = GetValue(k)]_vars
    /\ []((lookup.prev # None /\ lookup.prev.value \in ResolvedOutputs)
             => lookup.result = lookup.prev.value)

\* C20, amended: an InferenceStatus call never writes or alters an entry; it
\* changes the cache at most by removing the entry under the uuid it found
\* expired.  An InferenceStatus call that follows one on the same resolved
\* job, with no insert of that job in between, returns the same output or
\* NotFound, and after NotFound it returns NotFound again.
C20_StatusReadOnlyUntilExpiry ==
    /\ [][(\/ LookupStep /\ lookup'.op = "status"
           \/ \E c \in Callers : pending[c].op = "status" /\ pending'[c] # pending[c])
             => /\ DOMAIN cache' \subseteq DOMAIN cache
                /\ \A k \in DOMAIN cache' : cache'[k] = cache[k]
                /\ DOMAIN cache \ DOMAIN cache'
                      \subseteq {pending[c].key : c \in Callers}]_vars
    /\ []((lookup.prev # None /\ lookup.prev.value \in ResolvedOutputs)
             => lookup.result \in {lookup.prev.value, NotFound})
    /\ []((lookup.prev # None /\ lookup.prev.value = NotFound)
             => lookup.result = NotFound)

\* InferenceStatus answered COMPLETED, then found the entry expired, answered
\* NotFound and removed it, leaving the other key's entry in place
C20_Witness ==
    /\ lookup.op = "status"
    /\ lookup.prev = Some([kind |-> "reply", status |-> "COMPLETED"])
    /\ lookup.result = NotFound
    /\ lookup.key \notin DOMAIN cache
    /\ pending = [c \in Callers |-> NoPending]
    /\ cache # <<>>

\* C13: the loop makes at most max_tokens forward passes and emits at most
\* max_tokens tokens; every iteration either ends the loop or moves index
\* one step closer to max_tokens; a token the EOS handler matches is the
\* last token emitted and the loop has stopped at it.
C13_GenerationTerminates ==
    /\ [](/\ Len(forwards) <= max_tokens
          /\ Len(generated_tokens) <= max_tokens
          /\ index <= max_tokens)
    /\ [](\A i \in 1..Len(generated_tokens) :
             IsEosToken(eos_handler, generated_tokens[i])
                => (i = Len(generated_tokens) /\ gen_pc = "done"))
    /\ [][gen_pc = "loop"
             => \/ gen_pc' \in {"done", "failed"}
                \/ (gen_pc' = "loop" /\ index' = index + 1
                       /\ Len(forwards') = Len(forwards) + 1)]_vars
    /\ [](gen_pc = "done"
             => \/ Len(generated_tokens) = max_tokens
                \/ (generated_tokens # <<>>
                      /\ IsEosToken(eos_handler,
                                    generated_tokens[Len(generated_tokens)])))

\* the loop stopped at an EOS token of a Multiple handler after two
\* forward passes, with budget left
C13_Witness ==
    /\ gen_pc = "done"
    /\ eos_handler.kind = "Multiple"
    /\ Len(forwards) = 2
    /\ Len(generated_tokens) = 2
    /\ max_tokens > 2
    /\ IsEosToken(eos_handler, generated_tokens[2])

\* the call of job t has not arrived, or is on the immediate path (in
\* either mode), or has been answered OK
OnImmediatePath(t) ==
    \/ pc[Handler(t)] \in {"idle", "infer", "generating", "returned"}
    \/ reply[t] = InferenceRunReply(AssistantMessage, "OK", t)

\* C21: from its arrival on, a job served on the immediate path has no
\* entry with status QUEUED under its job id in the result cache.
C21_NoQueuedOnImmediatePath ==
    \A t \in Jobs :
       OnImmediatePath(t)
          => ~(t \in DOMAIN results /\ results[t].status = "QUEUED")

\* a job was answered OK inline after the drainer of an earlier job had
\* resolved a queued job, whose entry is in the cache
C21_Witness ==
    /\ ~queue_disabled
    /\ \E t \in Jobs, u \in Jobs :
          /\ u < t
          /\ reply[t] = InferenceRunReply(AssistantMessage, "OK", t)
          /\ u \in DOMAIN results
          /\ t \notin DOMAIN results

\* C22: dequeue never waits for a job: a drainer at the top of its loop
\* takes its step as soon as the queue mutex is free, and the step hands it
\* the oldest buffered job and removes that job, or hands it nothing and
\* leaves the queue as it is when nothing is buffered.
C22_DequeueNonBlocking ==
    /\ [](\A d \in Jobs :
             (pc[Drainer(d)] = "loop" /\ queue_guard = NoTask)
                => ENABLED DrainerDequeue(d))
    /\ [][\A d \in Jobs :
             (pc[Drainer(d)] = "loop" /\ pc'[Drainer(d)] # "loop")
                => IF queue # <<>>
                   THEN /\ job'[d] = Head(queue)
                        /\ queue' = Tail(queue)
                        /\ pc'[Drainer(d)] = "infer"
                   ELSE /\ job'[d] = 0
                        /\ queue' = queue
                        /\ queue_len' = queue_len
                        /\ pc'[Drainer(d)] = "reset"]_vars

\* a drainer that had run two queued jobs has just been handed nothing
C22_Witness ==
    \E d \in Jobs :
       /\ pc[Drainer(d)] = "reset"
       /\ job[d] = 0
       /\ queue = <<>>
       /\ Len(resolved) >= 2

\* C23: an insert of key k puts (value, now) under k, whatever was there,
\* and leaves the entries of the other keys as they were; a get of k made
\* less than ttl after the latest insert of k returns the value of that
\* insert, and one made ttl or more after it returns None.
C23_InsertOverwrites ==
    /\ [][inserted' # inserted
            => \E k \in Keys :
                  /\ k \in DOMAIN cache'
                  /\ cache'[k].timestamp = now
                  /\ cache'[k].value = inserted'[k].value
                  /\ DOMAIN cache' = DOMAIN cache \cup {k}
                  /\ \A o \in DOMAIN cache \ {k} : cache'[o] = cache[o]]_vars
    /\ [][(LookupStep /\ lookup'.op = "get" /\ lookup'.key \in DOMAIN inserted)
            => LET k == lookup'.key
               IN  IF now - inserted[k].at < ttl
                   THEN lookup'.result = Some(inserted[k].value)
                   ELSE lookup'.result = None]_vars

\* a step that is the write half of a get by caller c
EvictStep(c) == pending[c] # NoPending /\ pending'[c] = NoPending

\* a step of cleanup_expired that removes something
CleanupStep == pending' = pending /\ DOMAIN cache' # DOMAIN cache
                  /\ DOMAIN cache' \subseteq DOMAIN cache

\* C24: the entry a get removes is the expired entry under its key, and
\* the cache is then one entry shorter; cleanup_expired removes exactly the
\* entries of age ttl or more and leaves the others as they were, so that
\* afterwards the cache holds exactly what get returns, and nothing when
\* every entry had expired.
C24_Eviction ==
    /\ [][\A c \in Callers :
             EvictStep(c)
                => LET k == pending[c].key
                   IN  /\ k \notin DOMAIN cache'
                       /\ k \in DOMAIN cache
                             => /\ now - cache[k].timestamp >= ttl
                                /\ CacheLen' = CacheLen - 1]_vars
    /\ [][CleanupStep
             => /\ \A k \in DOMAIN cache :
                      k \in DOMAIN cache' <=> now - cache[k].timestamp < ttl
                /\ \A k \in DOMAIN cache' : cache'[k] = cache[k]
                /\ \A k \in Keys :
                      GetValue(k)' = IF k \in DOMAIN cache'
                                     THEN Some(cache'[k].value)
                                     ELSE None
                /\ (\A k \in DOMAIN cache : now - cache[k].timestamp >= ttl)
                      => CacheLen' = 0]_vars

\* the token sequence as it was when the i-th forward pass was made
TokensAt(i) == SubSeq(tokens, 1, Len(tokens) - Len(generated_tokens) + i - 1)

\* C25: with the KV cache enabled, every forward pass after the first gets
\* the last token alone, at context_index tokens.len() - 1; the first
\* forward pass, and every forward pass with the KV cache disabled, gets
\* the whole token sequence at context_index 0.
C25_ContextWindow ==
    \A i \in 1..Len(forwards) :
       IF use_kv_cache /\ i > 1
       THEN /\ forwards[i].ctxt = <<TokensAt(i)[Len(TokensAt(i))]>>
            /\ forwards[i].context_index = Len(TokensAt(i)) - 1
       ELSE /\ forwards[i].ctxt = TokensAt(i)
            /\ forwards[i].context_index = 0

\* three forward passes with the KV cache enabled on a two-token prompt
C25_Witness ==
    /\ use_kv_cache
    /\ Len(forwards) = 3
    /\ Len(tokens) - Len(generated_tokens) = 2
    /\ forwards[1].ctxt = TokensAt(1)
    /\ Len(forwards[3].ctxt) = 1

\* the last n elements of seq, all of them when it has fewer
LastN(seq, n) ==
    IF n >= Len(seq) THEN seq ELSE SubSeq(seq, Len(seq) - n + 1, Len(seq))

\* the logits with those at the indices occurring in window penalised
PenalisedOver(window) ==
    [i \in DOMAIN logits |->
        IF \E j \in 1..Len(window) : window[j] = i
        THEN IF logits[i] > 0
             THEN logits[i] \div config.repeat_penalty
             ELSE logits[i] * config.repeat_penalty
        ELSE logits[i]]

\* C26: with repeat_penalty # 1 the sampler gets the logits penalised at
\* the indices of the last repeat_last_n emitted (generated) tokens, and
\* with repeat_penalty = 1 it gets the logits of forward unchanged.
C26_RepeatPenalty ==
    sample_pc = "sample"
       => penalised = IF config.repeat_penalty # 1
                      THEN PenalisedOver(LastN(generated_tokens, config.repeat_last_n))
                      ELSE logits

\* C26, amended: with repeat_penalty # 1 the sampler gets the logits
\* penalised at the indices of the last repeat_last_n tokens of the token
\* sequence, that is of the prompt followed by the tokens generated so far,
\* and with repeat_penalty = 1 it gets the logits of forward unchanged.
C26_RepeatPenaltyOverTokens ==
    sample_pc = "sample"
       => penalised = IF config.repeat_penalty # 1
                      THEN PenalisedOver(LastN(tokens, config.repeat_last_n))
                      ELSE logits

\* first iteration on a two-token prompt with repeat_last_n = 1: the logit
\* of the last prompt token is penalised, that of the first is not
C26_Witness ==
    /\ sample_pc = "sample"
    /\ generated_tokens = <<>>
    /\ tokens = <<0, 1>>
    /\ config.repeat_penalty = 2
    /\ config.repeat_last_n = 1
    /\ logits[0] = 2 /\ penalised[0] = 2
    /\ logits[1] = -2 /\ penalised[1] = -4

\* C27: temperature <= 0 gives ArgMax whatever top_k and top_p are;
\* otherwise no top_k and no top_p give All, top_k alone TopK, top_p alone
\* TopP, both TopKThenTopP, each carrying the configured values.
C27_SamplingMode ==
    logits_processor # <<>>
       => LET c == config
              m == logits_processor.sampling
          IN  IF c.temperature <= 0 THEN m = [kind |-> "ArgMax"]
              ELSE /\ (c.top_k = None /\ c.top_p = None)
                         => m = [kind |-> "All", temperature |-> c.temperature]
                   /\ (c.top_k # None /\ c.top_p = None)
                         => m = [kind |-> "TopK", k |-> c.top_k.value,
                                 temperature |-> c.temperature]
                   /\ (c.top_k = None /\ c.top_p # None)
                         => m = [kind |-> "TopP", p |-> c.top_p.value,
                                 temperature |-> c.temperature]
                   /\ (c.top_k # None /\ c.top_p # None)
                         => m = [kind |-> "TopKThenTopP", k |-> c.top_k.value,
                                 p |-> c.top_p.value, temperature |-> c.temperature]

\* a processor made for temperature 1 with top_k and top_p both set
C27_Witness ==
    /\ sample_pc = "forward"
    /\ generated_tokens = <<>>
    /\ config.temperature = 1
    /\ config.top_k # None
    /\ config.top_p # None
    /\ logits_processor.sampling.kind = "TopKThenTopP"


\* C29: in the Qwen backend use_kv_cache is false; a generation starts on
\* an empty internal cache; every forward pass finds the internal cache
\* empty and gets the whole token sequence at offset 0; a clear_kv_cache
\* that follows a clear_kv_cache leaves the cache as it was.
C29_QwenKvDiscipline ==
    /\ [](runs > 0 => ~use_kv_cache)
    /\ [](Len(kv_at_forward) = Len(forwards))
    /\ [](\A i \in 1..Len(forwards) :
             /\ kv_at_forward[i] = 0
             /\ forwards[i].ctxt = TokensAt(i)
             /\ forwards[i].context_index = 0)
    /\ [][runs' = runs + 1 => kv_cache' = 0]_vars
    /\ [][clears >= 1 /\ clears' = clears + 1 => kv_cache' = kv_cache]_vars

\* the second generation of a model has made two forward passes, the first
\* of them after two clears in a row, the second on a cache holding the
\* window of the first
C29_Witness ==
    /\ runs = 2
    /\ Len(forwards) = 2
    /\ kv_at_forward = <<0, 0>>
    /\ kv_cache = Len(tokens) - 1
    /\ qwen_pc = "loop"


\* C30: on the immediate and on the drained path alike, the prompt handed
\* to the backend is the system prompt serialised at startup, followed by
\* one {role, content} object per message of the job's request, in the
\* order of the request and with none left out.
C30_PromptAssembly ==
    \A i \in 1..Len(backend) :
       LET prompt == backend[i].prompt
           messages == received[backend[i].job_id].messages
       IN /\ backend[i].path \in {"immediate", "drained"}
          /\ Len(prompt) = Len(messages) + 1
          /\ prompt[1] = system_prompt
          /\ prompt[1][1] = <<"role", "system">>
          /\ \A k \in 1..Len(messages) :
                prompt[k + 1] = <<<<"role", messages[k].role>>,
                                  <<"content", messages[k].content>>>>

\* an immediate and a drained job with the same two different messages
\* have reached the backend with the same three-element prompt
C30_Witness ==
    \E i, j \in 1..Len(backend) :
       /\ backend[i].path = "immediate"
       /\ backend[j].path = "drained"
       /\ received[backend[i].job_id] = received[backend[j].job_id]
       /\ Len(backend[i].prompt) = 3
       /\ backend[i].prompt[2] # backend[i].prompt[3]
       /\ backend[i].prompt = backend[j].prompt

\* a handler waits for channel capacity with the queue mutex held
WaitsForCapacity(t) ==
    /\ pc[Handler(t)] = "send"
    /\ queue_guard = Handler(t)
    /\ Len(queue) >= QueueBufferSize

\* C32: never does a handler hold the queue mutex waiting for capacity in
\* the channel while a drainer waits for the queue mutex to dequeue.
C32_NoFullQueueDeadlock ==
    ~ \E t \in Jobs, d \in Jobs :
         /\ WaitsForCapacity(t)
         /\ pc[Drainer(d)] = "loop"

\* a generation is in progress or a drainer task is live
Busy == Generating # {} \/ \E d \in Jobs : DrainerLive(d)

\* C33: with the queue enabled, while a generation is in progress or a
\* drainer task is live, processing is true, and every InferenceRun call
\* admitted then goes to the enqueue branch.
C33_BusyMeansProcessing ==
    /\ [](~queue_disabled /\ Busy => processing)
    /\ [][\A t \in Jobs :
            (/\ ~queue_disabled
             /\ Busy
             /\ pc[Handler(t)] = "idle"
             /\ pc'[Handler(t)] # "idle")
            => pc'[Handler(t)] = "enqueue"]_vars

\* a call has been admitted to the enqueue branch while a drainer generates
C33_Witness ==
    \E d \in Jobs, t \in Jobs :
       /\ ~queue_disabled
       /\ processing
       /\ pc[Drainer(d)] = "generating"
       /\ pc[Handler(t)] = "enqueue"
       /\ t > job[d]

\* results.get(&uuid) in inference_status and inference_result: the entry,
\* or the NotFound status
Lookup(uuid) == IF uuid \in DOMAIN results THEN results[uuid] ELSE NotFound

\* the call of job t has been answered with an OK reply
AnsweredOk(t) == reply[t].kind = "reply" /\ reply[t].status = "OK"

\* C34: a job answered with status OK has no cache entry, so a lookup of
\* the uuid of an OK reply yields NotFound; no cache entry has status OK.
C34_OkNeverCached ==
    /\ \A t \in Jobs : AnsweredOk(t) => Lookup(reply[t].uuid) = NotFound
    /\ \A j \in DOMAIN results : results[j].status # "OK"

\* with the queue enabled, a call has been answered OK and the job of a
\* later call has its COMPLETED entry in the cache
C34_Witness ==
    \E t \in Jobs, j \in Jobs :
       /\ ~queue_disabled
       /\ AnsweredOk(t)
       /\ j > t
       /\ HasStatus(j, {"COMPLETED"})

\* C35: every cache entry has the key it is stored under as its uuid and
\* one of the statuses QUEUED, COMPLETED, ERROR; it has a response, of role
\* assistant, exactly when its status is COMPLETED.
C35_EntriesWellFormed ==
    \A j \in DOMAIN results :
       /\ results[j].kind = "reply"
       /\ results[j].uuid = j
       /\ results[j].status \in {"QUEUED", "COMPLETED", "ERROR"}
       /\ results[j].response # NoMessage <=> results[j].status = "COMPLETED"
       /\ results[j].status = "COMPLETED" => results[j].response.role = "assistant"

\* the cache holds an entry of each status
C35_Witness ==
    \E i, j, k \in DOMAIN results :
       /\ results[i].status = "QUEUED"
       /\ results[j].status = "COMPLETED"
       /\ results[k].status = "ERROR"

\* C36: with the queue disabled, no step of an InferenceRun call changes
\* the processing value, the prompt queue or the result cache, or spawns a
\* drainer; a handler that has returned, with a reply or with an error, no
\* longer holds the processing mutex.
C36_DisabledFrame ==
    /\ [][queue_disabled =>
            /\ processing' = processing
            /\ queue' = queue
            /\ queue_len' = queue_len
            /\ results' = results
            /\ \A d \in Jobs : pc'[Drainer(d)] = "unspawned"]_vars
    /\ [](queue_disabled =>
            \A t \in Jobs :
               pc[Handler(t)] = "done" => processing_guard # Handler(t))

\* with the queue disabled, one call has returned OK and another one an
\* error, and the processing mutex is free
C36_Witness ==
    \E t \in Jobs, u \in Jobs :
       /\ queue_disabled
       /\ AnsweredOk(t)
       /\ pc[Handler(u)] = "done"
       /\ reply[u].kind = "error"
       /\ processing_guard = NoTask

\* C38: whenever nobody holds the queue mutex, queue_len is the number of
\* jobs buffered in the channel; queue_len goes up by one only in a step
\* that puts a job into the channel, goes down by one only in a step that
\* takes the oldest job out of it and hands it to a drainer, and is never
\* negative.
C38_QueueLenExact ==
    /\ [](queue_guard = NoTask => queue_len = Len(queue))
    /\ [](queue_len >= 0)
    /\ [][queue_len' > queue_len =>
            /\ queue_len' = queue_len + 1
            /\ Len(queue') = Len(queue) + 1
            /\ SubSeq(queue', 1, Len(queue)) = queue]_vars
    /\ [][queue_len' < queue_len =>
            /\ queue_len' = queue_len - 1
            /\ queue # <<>>
            /\ queue' = Tail(queue)
            /\ \E d \in Jobs : job[d] = 0 /\ job'[d] = Head(queue)]_vars

\* the channel is full again after a job has been taken out of it and
\* resolved, and nobody holds the queue mutex
C38_Witness ==
    /\ queue_guard = NoTask
    /\ Len(queue) = QueueBufferSize
    /\ queue_len = QueueBufferSize
    /\ resolved # <<>>

\* C37: the generated sequence starts empty, grows by exactly the token an
\* iteration sampled and pushed onto the token sequence, and changes in no
\* other step, so it holds the sampled tokens in order and no prompt
\* token; when the loop returns it, its length is the number of forward
\* passes made; only its last element can be an EOS token; with
\* max_tokens = 0 no forward pass is made and it is empty.
C37_GeneratedTokens ==
    /\ [](forwards = <<>> => generated_tokens = <<>>)
    /\ [][/\ Len(generated_tokens') >= Len(generated_tokens)
          /\ Len(generated_tokens') <= Len(generated_tokens) + 1
          /\ SubSeq(generated_tokens', 1, Len(generated_tokens)) = generated_tokens
          /\ Len(generated_tokens') = Len(generated_tokens) + 1 =>
                /\ Len(forwards') = Len(forwards) + 1
                /\ tokens' = Append(tokens, generated_tokens'[Len(generated_tokens')])
          /\ Len(generated_tokens') = Len(generated_tokens) => tokens' = tokens]_vars
    /\ [](gen_pc = "done" => Len(generated_tokens) = Len(forwards))
    /\ [](\A i \in 1..Len(generated_tokens) :
             IsEosToken(eos_handler, generated_tokens[i])
                => i = Len(generated_tokens) /\ gen_pc = "done")
    /\ [](max_tokens = 0 => forwards = <<>> /\ generated_tokens = <<>>)

\* the loop has returned two tokens after two forward passes on a
\* two-token prompt, the second of them an EOS token
C37_Witness ==
    /\ gen_pc = "done"
    /\ Len(forwards) = 2
    /\ Len(tokens) = 4
    /\ Len(generated_tokens) = 2
    /\ ~IsEosToken(eos_handler, generated_tokens[1])
    /\ IsEosToken(eos_handler, generated_tokens[2])

\* the JSON value that follows the marker at the i-th piece of the input:
\* what a closed fence after it encloses, or the rest of the input when
\* that starts with { or [
MarkerValue(i) ==
    LET after == i + LeadingWhitespace(From(input, i))
        rest == From(input, after)
        close == Find(From(input, after + 1), Fence)
    IN IF StartsWithFence(rest)
       THEN IF close.some
            THEN FromStr(SubSeq(input, after + 2, after + 1 + close.value))
            ELSE None
       ELSE IF StartsWithJson(rest) THEN FromStr(rest) ELSE None

\* the markers of the input that a parseable JSON value follows
ParseableMarkers ==
    {i \in 1..Len(input) : input[i] = ActionMarker /\ MarkerValue(i).some}

\* C31: get_last_json returns the JSON value that follows the last marker
\* followed by parseable JSON, fenced or bare, and None when no marker is
\* followed by parseable JSON.
C31_LastJson ==
    json_pc = "returned" =>
        last_valid_json =
            IF ParseableMarkers = {} THEN None
            ELSE MarkerValue(CHOOSE i \in ParseableMarkers :
                                \A j \in ParseableMarkers : j <= i)

====
